---- MODULE Spec2Model ----
(***************************************************************************)
(* The compatibility-check scripts of mdio-cpp:                            *)
(*   src/mdio/regression_tests/xarray_compatibility_test.py  ("regression")*)
(*   src/mdio/xarray_compatibility_test.py                    ("xarray")   *)
(*   src/mdio/zarr_compatibility.py                           ("zarr")     *)
(* Each run of a script is a sequential process: import, parse_args, the   *)
(* check function (flag conversion, the library's open call, the except    *)
(* clause), sys.exit.  The store at file_path persists between runs.       *)
(***************************************************************************)
EXTENDS Integers, Sequences, FiniteSets, TLC

VARIABLES
  pc,            \* position of the running script
  script,        \* which script runs
  argv,          \* positional command-line arguments
  libImportable, \* environment: the script's array library can be imported
  sigint,        \* environment: SIGINT arrives while the open call blocks
  store,         \* what is on disk at file_path
  store0,        \* what was on disk at file_path when the run started
  argsParsed,    \* parse_args has run
  consolidated,  \* the converted consolidated_metadata flag
  openCalls,     \* the library open calls made by this run, in order
  exc,           \* the exception the open call raised, or NoExc
  stdout,        \* lines printed; a line is a sequence of text fragments
  uncaught,      \* the exception that ended the process uncaught, or NoExc
  ret,           \* the check function's return value, or None
  results,       \* number of values the check function has returned
  exitCode,      \* the process exit status, or None
  prevExit,      \* exit status of the previous run, or None
  rerun,         \* this run repeats the previous command, store untouched
  modified       \* another process changed the store since the last run

vars == <<pc, script, argv, libImportable, sigint, store, store0, argsParsed,
          consolidated, openCalls, exc, stdout, uncaught, ret, results,
          exitCode, prevExit, rerun, modified>>

\* Longest command line (number of positional arguments) explored.
MaxArgs == 2

\* Python's None for a string-valued slot; an optional value of another type
\* is a sequence of length 0 or 1.
None == "None"
NoExc == [type |-> "None", arg |-> ""]

Scripts == {"regression", "xarray", "zarr"}
XarrayScripts == {"regression", "xarray"}

\* Command-line words: a path and candidate consolidated_metadata strings.
Tokens == {"store.mdio", "True", "true", "TRUE", "1", "", "False"}

RECURSIVE SeqsUpTo(_)
SeqsUpTo(n) ==
  IF n = 0 THEN {<<>>}
  ELSE SeqsUpTo(n - 1) \cup
       {Append(s, t) : s \in {x \in SeqsUpTo(n - 1) : Len(x) = n - 1}, t \in Tokens}

CommandLines == SeqsUpTo(MaxArgs)

(***************************************************************************)
(* The store at file_path: nothing, a regular file, or a directory that    *)
(* may hold group metadata (.zgroup, in a format the installed library     *)
(* supports or not) and consolidated metadata (.zmetadata).                *)
(***************************************************************************)
Missing == [kind |-> "missing", zgroup |-> "none", zmetadata |-> FALSE]
StoreStates ==
  { Missing,
    [kind |-> "file", zgroup |-> "none", zmetadata |-> FALSE],
    [kind |-> "dir", zgroup |-> "none", zmetadata |-> FALSE],
    [kind |-> "dir", zgroup |-> "unsupported", zmetadata |-> FALSE],
    [kind |-> "dir", zgroup |-> "ok", zmetadata |-> FALSE],
    [kind |-> "dir", zgroup |-> "ok", zmetadata |-> TRUE] }

(***************************************************************************)
(* Python's exception classes, as far as the scripts meet them.            *)
(***************************************************************************)
Parent(cls) ==
  CASE cls = "Exception" -> "BaseException"
    [] cls = "KeyboardInterrupt" -> "BaseException"
    [] cls = "ImportError" -> "Exception"
    [] cls = "OSError" -> "Exception"
    [] cls = "FileNotFoundError" -> "OSError"
    [] cls = "LookupError" -> "Exception"
    [] cls = "KeyError" -> "LookupError"
    [] cls = "ValueError" -> "Exception"
    [] cls = "FSPathExistNotDir" -> "ValueError"
    [] cls = "MetadataError" -> "Exception"
    [] OTHER -> "object"

RECURSIVE IsInstance(_, _)
IsInstance(cls, of) ==
  IF cls = of THEN TRUE
  ELSE IF cls \in {"BaseException", "object"} THEN FALSE
  ELSE IsInstance(Parent(cls), of)

\* str(e): the argument, except that KeyError shows the repr of its key.
Str(e) ==
  IF e.type = "KeyError" THEN <<"'", e.arg, "'">> ELSE <<e.arg>>

\* type(e).__name__
TypeName(e) == e.type

Returned(st) == [raised |-> FALSE, exc |-> NoExc, store |-> st]
Raised(type, arg, st) ==
  [raised |-> TRUE, exc |-> [type |-> type, arg |-> arg], store |-> st]

(***************************************************************************)
(* The library open calls.  Neither library is part of the repository; the *)
(* operators give the documented result of the call the script makes, as a *)
(* function of what is on disk.                                            *)
(***************************************************************************)

\* xr.open_zarr(file_path, consolidated=c, mask_and_scale=False, chunks=None):
\* opens read-only.  With consolidated=True the consolidated metadata key
\* must exist; otherwise a supported .zgroup must.
xr_open_zarr(st, c) ==
  CASE st.kind = "file" ->
         Raised("FSPathExistNotDir", "path exists but is not a directory", st)
    [] st.kind # "file" /\ c /\ ~st.zmetadata ->
         Raised("KeyError", ".zmetadata", st)
    [] st.kind # "file" /\ ~(c /\ ~st.zmetadata) /\ st.zgroup = "none" ->
         Raised("FileNotFoundError", "No such file or directory", st)
    [] st.kind # "file" /\ ~(c /\ ~st.zmetadata) /\ st.zgroup = "unsupported" ->
         Raised("MetadataError", "unsupported zarr format", st)
    [] OTHER -> Returned(st)

\* zarr.open(file_path) with mode='w-' (create, fail if exists).
zarr_open_create_only(st) ==
  IF st.kind = "missing"
  THEN Returned([kind |-> "dir", zgroup |-> "ok", zmetadata |-> FALSE])
  ELSE Raised("ValueError", "path contains a group", st)

\* zarr.open(file_path): no mode is passed, so the library's default mode
\* 'a' applies: read/write, create if it does not exist.  Where no array or
\* group is found, a group is initialised at the path (.zgroup is written).
zarr_open(st) ==
  CASE st.kind = "file" ->
         Raised("FSPathExistNotDir", "path exists but is not a directory", st)
    [] st.kind # "file" /\ st.zgroup = "unsupported" ->
         Raised("MetadataError", "unsupported zarr format", st)
    [] st.kind # "file" /\ st.zgroup = "none" ->
         Returned([kind |-> "dir", zgroup |-> "ok", zmetadata |-> st.zmetadata])
    [] OTHER -> Returned(st)

(***************************************************************************)
(* The scripts' own logic.                                                 *)
(***************************************************************************)

NoImportGuard(s) == FALSE

\* Whether the script wraps its library import in try/except ImportError.
ImportGuarded(s) == s = "regression"

TwoPositionals(s) == 2

\* The positional arguments the script's parser declares.
NumPositionals(s) == IF s = "zarr" THEN 1 ELSE 2

Lower(w) ==
  CASE w \in {"True", "TRUE", "true"} -> "true"
    [] w = "False" -> "false"
    [] OTHER -> w

FlagIgnoringCase(flag) == Lower(flag) = "true"

\* if consolidated_metadata == "True": True, else: False
ConsolidatedFlag(flag) == flag = "True"

\* The arguments of the open call the script makes.
OpenArgs(s, path, c) ==
  IF s = "zarr"
  THEN [fn |-> "zarr.open", path |-> path]
  ELSE [fn |-> "xr.open_zarr", path |-> path, consolidated |-> c,
        mask_and_scale |-> FALSE, chunks |-> None]

CatchesBaseException(e) == IsInstance(e.type, "BaseException")

CatchesOSError(e) == IsInstance(e.type, "OSError")

\* except Exception as e
ExceptClauseCatches(e) == IsInstance(e.type, "Exception")

MessageOnly(s, e) == << <<"Failed to open: ">> \o Str(e) >>

\* What the except clause prints.
FailureDiagnostic(s, e) ==
  IF s = "zarr"
  THEN << <<"Failed to open Variable: ">> \o Str(e) >>
  ELSE << <<"Failed to open dataset: ">> \o Str(e),
          <<"Exception type: ", TypeName(e)>> >>

ReturnValueAlwaysZero(raised) == 0

\* return 0 after the open call, return 0xff in the except clause
ReturnValue(raised) == IF raised THEN 255 ELSE 0

\* Exit status of a process that ends on an uncaught exception: an uncaught
\* KeyboardInterrupt ends it by SIGINT (128 + 2), any other with status 1.
UncaughtExit(e) == IF e.type = "KeyboardInterrupt" THEN 130 ELSE 1

(***************************************************************************)
(* A script has been started: with some command line, in some environment, *)
(* against whatever is at the path it is given.                            *)
(***************************************************************************)
Init ==
  /\ pc = "import"
  /\ script \in Scripts
  /\ argv \in CommandLines
  /\ libImportable \in BOOLEAN
  /\ sigint \in BOOLEAN
  /\ store \in StoreStates
  /\ store0 = store
  /\ argsParsed = FALSE
  /\ consolidated = <<>>
  /\ openCalls = <<>>
  /\ exc = NoExc
  /\ stdout = <<>>
  /\ uncaught = NoExc
  /\ ret = <<>>
  /\ results = 0
  /\ exitCode = <<>>
  /\ prevExit = <<>>
  /\ rerun = FALSE
  /\ modified = FALSE

\* What a new process starts with.
Fresh ==
  /\ store0' = store'
  /\ argsParsed' = FALSE
  /\ consolidated' = <<>>
  /\ openCalls' = <<>>
  /\ exc' = NoExc
  /\ stdout' = <<>>
  /\ uncaught' = NoExc
  /\ ret' = <<>>
  /\ results' = 0
  /\ exitCode' = <<>>
  /\ modified' = FALSE

\* The same command is run again in the same environment.
ReRun ==
  /\ pc = "exited"
  /\ pc' = "import"
  /\ prevExit' = exitCode
  /\ rerun' = ~modified
  /\ UNCHANGED <<script, argv, libImportable, sigint, store>>
  /\ Fresh

\* Between two runs another process changes what is at the path.
ExternalModify ==
  /\ pc = "exited"
  /\ ~modified
  /\ store' \in StoreStates \ {store}
  /\ modified' = TRUE
  /\ UNCHANGED <<pc, script, argv, libImportable, sigint, store0, argsParsed,
                 consolidated, openCalls, exc, stdout, uncaught, ret, results,
                 exitCode, prevExit, rerun>>

\* import xarray as xr / import zarr, at the top of the script.
ImportLibrary ==
  /\ pc = "import"
  /\ \/ /\ libImportable
        /\ pc' = "parse"
        /\ UNCHANGED <<stdout, uncaught, exitCode>>
     \/ /\ ~libImportable
        /\ ImportGuarded(script)
        /\ stdout' = Append(stdout, <<"Failed to import xarray.">>)
        /\ exitCode' = <<253>>
        /\ pc' = "exited"
        /\ UNCHANGED uncaught
     \/ /\ ~libImportable
        /\ ~ImportGuarded(script)
        /\ uncaught' = [type |-> "ImportError", arg |-> "No module"]
        /\ exitCode' = <<UncaughtExit(uncaught')>>
        /\ pc' = "exited"
        /\ UNCHANGED stdout
  /\ UNCHANGED <<script, argv, libImportable, sigint, store, store0, argsParsed,
                 consolidated, openCalls, exc, ret, results, prevExit, rerun,
                 modified>>

\* parser.parse_args(): a command line without exactly the declared
\* positionals ends the process with status 2 (argparse's error exit).
ParseArgs ==
  /\ pc = "parse"
  /\ argsParsed' = TRUE
  /\ \/ /\ Len(argv) = NumPositionals(script)
        /\ pc' = "call"
        /\ UNCHANGED exitCode
     \/ /\ Len(argv) # NumPositionals(script)
        /\ exitCode' = <<2>>
        /\ pc' = "exited"
  /\ UNCHANGED <<script, argv, libImportable, sigint, store, store0,
                 consolidated, openCalls, exc, stdout, uncaught, ret, results,
                 prevExit, rerun, modified>>

\* The check function is entered; the xarray scripts convert the flag.
EnterCheck ==
  /\ pc = "call"
  /\ consolidated' = IF script = "zarr" THEN <<>>
                     ELSE <<ConsolidatedFlag(argv[2])>>
  /\ pc' = "try"
  /\ UNCHANGED <<script, argv, libImportable, sigint, store, store0, argsParsed,
                 openCalls, exc, stdout, uncaught, ret, results, exitCode,
                 prevExit, rerun, modified>>

\* Outcome of the library call: interrupted, or the library's result.
OpenOutcome ==
  IF sigint THEN Raised("KeyboardInterrupt", "", store)
  ELSE IF script = "zarr" THEN zarr_open(store)
  ELSE xr_open_zarr(store, consolidated[1])

\* The open call inside try: it returns or raises.
OpenCall ==
  /\ pc = "try"
  /\ openCalls' = Append(openCalls,
        OpenArgs(script, argv[1],
                 IF script = "zarr" THEN FALSE ELSE consolidated[1]))
  /\ store' = OpenOutcome.store
  /\ exc' = OpenOutcome.exc
  /\ pc' = IF OpenOutcome.raised THEN "raised" ELSE "opened"
  /\ UNCHANGED <<script, argv, libImportable, sigint, store0, argsParsed,
                 consolidated, stdout, uncaught, ret, results, exitCode,
                 prevExit, rerun, modified>>

\* return 0
ReturnSuccess ==
  /\ pc = "opened"
  /\ ret' = <<ReturnValue(FALSE)>>
  /\ results' = results + 1
  /\ pc' = "returned"
  /\ UNCHANGED <<script, argv, libImportable, sigint, store, store0, argsParsed,
                 consolidated, openCalls, exc, stdout, uncaught, exitCode,
                 prevExit, rerun, modified>>

\* except Exception as e: print the diagnostic, return 0xff.
HandleException ==
  /\ pc = "raised"
  /\ ExceptClauseCatches(exc)
  /\ stdout' = stdout \o FailureDiagnostic(script, exc)
  /\ ret' = <<ReturnValue(TRUE)>>
  /\ results' = results + 1
  /\ pc' = "returned"
  /\ UNCHANGED <<script, argv, libImportable, sigint, store, store0, argsParsed,
                 consolidated, openCalls, exc, uncaught, exitCode, prevExit,
                 rerun, modified>>

\* An exception the except clause does not match leaves the function and,
\* nothing above catching it, ends the process with a traceback.
Propagate ==
  /\ pc = "raised"
  /\ ~ExceptClauseCatches(exc)
  /\ uncaught' = exc
  /\ exitCode' = <<UncaughtExit(exc)>>
  /\ pc' = "exited"
  /\ UNCHANGED <<script, argv, libImportable, sigint, store, store0, argsParsed,
                 consolidated, openCalls, exc, stdout, ret, results, prevExit,
                 rerun, modified>>

\* sys.exit(test_..._dataset(...))
SysExit ==
  /\ pc = "returned"
  /\ exitCode' = ret
  /\ pc' = "exited"
  /\ UNCHANGED <<script, argv, libImportable, sigint, store, store0, argsParsed,
                 consolidated, openCalls, exc, stdout, uncaught, ret, results,
                 prevExit, rerun, modified>>

\* One step of the running script.
Run ==
  \/ ImportLibrary
  \/ ParseArgs
  \/ EnterCheck
  \/ OpenCall
  \/ ReturnSuccess
  \/ HandleException
  \/ Propagate
  \/ SysExit

Next ==
  \/ ReRun
  \/ ExternalModify
  \/ Run

Spec == Init /\ [][Next]_vars

\* A started script is scheduled until it exits: the process runs alone and
\* the only blocking step, the open call, returns or raises.
FairSpec == Spec /\ WF_vars(Run)

TypeOK ==
  /\ pc \in {"import", "parse", "call", "try", "opened", "raised",
             "returned", "exited"}
  /\ script \in Scripts
  /\ argv \in CommandLines
  /\ store \in StoreStates
  /\ Len(openCalls) <= 1
  /\ results \in 0..1

(***************************************************************************)
(* Helpers for the properties.                                             *)
(***************************************************************************)
RECURSIVE Flatten(_)
Flatten(lines) ==
  IF lines = <<>> THEN <<>> ELSE Head(lines) \o Flatten(Tail(lines))

Contains(text, sub) ==
  \E i \in 0..(Len(text) - Len(sub)) : SubSeq(text, i + 1, i + Len(sub)) = sub

Exited == pc = "exited"
OpenRaised == exc # NoExc
OpenReturned == Len(openCalls) = 1 /\ exc = NoExc /\ pc \notin {"try"}
WellFormedArgs ==
  \/ script = "zarr" /\ Len(argv) = 1
  \/ script \in XarrayScripts /\ Len(argv) = 2

C2_BothScriptsExitFD ==
  (Exited /\ script \in XarrayScripts /\ ~libImportable) =>
    /\ exitCode = <<253>>
    /\ ~argsParsed
    /\ openCalls = <<>>

(***************************************************************************)
(* C2 amended: with xarray unimportable no argument is parsed and no open  *)
(* call is made in either script; regression_tests/xarray_compatibility_   *)
(* test.py prints a line and exits 0xFD, while mdio/xarray_compatibility_  *)
(* test.py ends on the uncaught ImportError with status 1.                 *)
(***************************************************************************)
C2_GuardedExitsFD ==
  (script \in XarrayScripts /\ ~libImportable) =>
    /\ pc \in {"import", "exited"}
    /\ ~argsParsed
    /\ openCalls = <<>>
    /\ (Exited /\ script = "regression") =>
         (exitCode = <<253>> /\ uncaught = NoExc)
    /\ (Exited /\ script = "xarray") =>
         (exitCode = <<1>> /\ uncaught.type = "ImportError")

C2_Witness ==
  Exited /\ script = "regression" /\ ~libImportable /\ exitCode = <<253>>

(***************************************************************************)
(* C3: every open call of test_xarray_dataset passes consolidated = true   *)
(* exactly when the consolidated_metadata string is "True" (so false for   *)
(* "true", "TRUE", "1" and ""), with mask_and_scale false and chunks None. *)
(***************************************************************************)
C3_ExactTrueMatch ==
  script \in XarrayScripts =>
    \A i \in DOMAIN openCalls :
      /\ openCalls[i].fn = "xr.open_zarr"
      /\ openCalls[i].consolidated <=> (argv[2] = "True")
      /\ argv[2] \in {"true", "TRUE", "1", ""} => ~openCalls[i].consolidated
      /\ openCalls[i].mask_and_scale = FALSE
      /\ openCalls[i].chunks = None

C3_Witness ==
  /\ script = "regression" /\ Len(openCalls) = 1
  /\ argv[2] = "true" /\ ~openCalls[1].consolidated

(***************************************************************************)
(* C4 as stated: in every variant a check that returned 0xFF has printed   *)
(* both the exception's message and its type name, and a check that        *)
(* returned 0 has printed nothing.                                         *)
(***************************************************************************)
C4_MessageAndTypeEverywhere ==
  /\ ret = <<255>> =>
       /\ Contains(Flatten(stdout), Str(exc))
       /\ Contains(Flatten(stdout), <<TypeName(exc)>>)
  /\ ret = <<0>> => stdout = <<>>

(***************************************************************************)
(* C4 amended: the xarray checks print the message and the type name; the  *)
(* zarr check prints one line holding the message only; a check that       *)
(* returned 0 has printed nothing.                                         *)
(***************************************************************************)
C4_DiagnosticPerVariant ==
  /\ (ret = <<255>> /\ script \in XarrayScripts) =>
       /\ Contains(Flatten(stdout), Str(exc))
       /\ Contains(Flatten(stdout), <<TypeName(exc)>>)
  /\ (ret = <<255>> /\ script = "zarr") =>
       stdout = << <<"Failed to open Variable: ">> \o Str(exc) >>
  /\ ret = <<0>> => stdout = <<>>

C4_Witness ==
  /\ ret = <<255>> /\ script = "xarray" /\ exc.type = "KeyError"
  /\ Contains(Flatten(stdout), <<"'", ".zmetadata", "'">>)

(***************************************************************************)
(* C5 as stated: whatever the open call raises, the check function returns *)
(* normally and nothing reaches the process uncaught.                      *)
(***************************************************************************)
C5_EverythingCaught ==
  (Exited /\ OpenRaised) => (results = 1 /\ uncaught = NoExc)

(***************************************************************************)
(* C5 amended: an exception that is an instance of Exception is caught and *)
(* the function returns normally; one that is not (KeyboardInterrupt)      *)
(* leaves the function and ends the process uncaught.                      *)
(***************************************************************************)
C5_ExceptionInstancesCaught ==
  (Exited /\ OpenRaised) =>
    IF IsInstance(exc.type, "Exception")
    THEN results = 1 /\ ret = <<255>> /\ uncaught = NoExc
    ELSE results = 0 /\ ret = <<>> /\ uncaught = exc

C5_Witness ==
  Exited /\ exc.type = "FileNotFoundError" /\ ret = <<255>> /\ uncaught = NoExc

C7_StoreNeverMutated ==
  ~modified => store = store0

(***************************************************************************)
(* C8: a check of a path at which nothing exists returns 0xFF, never 0.    *)
(***************************************************************************)
C8_MissingPathFails ==
  (ret # <<>> /\ store0 = Missing) => ret = <<255>>

(***************************************************************************)
(* C9: the same command run twice in succession, nothing else touching the *)
(* store in between, exits with the same code the second time.             *)
(***************************************************************************)
C9_Idempotent ==
  (Exited /\ rerun) => exitCode = prevExit

C9_Witness ==
  Exited /\ rerun /\ script = "zarr" /\ exitCode = <<0>> /\ prevExit = <<0>>

(***************************************************************************)
(* C10 as stated, its part on the result: every invocation of the check    *)
(* function that made its open call has produced exactly one result by the *)
(* time the process has exited.                                            *)
(***************************************************************************)
C10_ExactlyOneResult ==
  (Exited /\ Len(openCalls) = 1) => results = 1

(***************************************************************************)
(* C10 amended: the open call is made at most once per invocation; at most *)
(* one result is produced, and exactly one when the open call returned or  *)
(* raised an instance of Exception; once the open call has returned or     *)
(* raised the process eventually exits; and after the result no open call  *)
(* is made and nothing is printed.                                         *)
(***************************************************************************)
C10_TwoStateMachine ==
  /\ [](/\ Len(openCalls) <= 1
        /\ results <= 1
        /\ (Exited /\ Len(openCalls) = 1
              /\ (exc = NoExc \/ IsInstance(exc.type, "Exception")))
             => results = 1
        /\ pc \in {"opened", "raised"} => results = 0)
  /\ [][(ret # <<>> /\ pc # "exited")
          => (openCalls' = openCalls /\ stdout' = stdout)]_vars
  /\ [][(pc = "raised") => (openCalls' = openCalls /\ pc' # "try")]_vars
  /\ (pc \in {"opened", "raised"}) ~> Exited

C10_Witness ==
  Exited /\ results = 1 /\ Len(openCalls) = 1 /\ exc.type = "KeyError"

====
